---- MODULE Spec2Model ----
(***************************************************************************)
(* Bank_of_mum (app.py): the loan term resolver, the payment ledger        *)
(* grouping, the amortization scheduler and the request handlers that     *)
(* read and write one JSON record per loan.                               *)
(*                                                                         *)
(* Number representation.  The program computes in binary floating point; *)
(* the model computes in fixed point:                                      *)
(*   money   : integer count of 1/MoneyScale cent (MoneyScale = 1200, so   *)
(*             that balance * annual_rate / 12 / 100 is exact for whole    *)
(*             cents and whole percents);                                  *)
(*   months  : integer count of 1/MonthScale month;                        *)
(*   (1+r)^-n: fixed point with FixDigits decimal digits.                  *)
(* round(x, 2) is round-half-to-even to a whole cent (or to 1/100 month). *)
(* A Python value that may be None is a sequence of length 0 or 1.         *)
(***************************************************************************)
EXTENDS Integers, Sequences, FiniteSets, TLC

VARIABLES
    store,      \* the data directory: loan id -> stored JSON record, or None
    req,        \* request slot -> the handler's position and local variables
    started,    \* number of requests started so far
    writes,     \* number of save_loan calls completed so far
    in_loan,       \* the loan handed to generate_amortization_schedule
    out_schedule,  \* what generate_amortization_schedule returned
    in_ledger,     \* the arguments of _group_payments_by_period
    out_grouped    \* what _group_payments_by_period returned

vars == <<store, req, started, writes, in_loan, out_schedule, in_ledger, out_grouped>>

MoneyScale == 1200
MonthScale == 10000
FixDigits == 6
RateDen == 1200
DefaultMonths == 12

None == <<>>
Some(v) == <<v>>
IsNone(o) == o = <<>>
Val(o) == o[1]

Cents(c) == c * MoneyScale
WholeMonths(m) == m * MonthScale

(* Python truthiness of an optional number: None and 0 are falsy. *)
Truthy(o) == IF IsNone(o) THEN FALSE ELSE Val(o) # 0

Abs(x) == IF x < 0 THEN 0 - x ELSE x
Max(a, b) == IF a >= b THEN a ELSE b

RECURSIVE Pow10(_)
Pow10(k) == IF k = 0 THEN 1 ELSE 10 * Pow10(k - 1)

FixOne == Pow10(FixDigits)

(* floor(a * 10^k / b) for a >= 0, b > 0, by long division. *)
RECURSIVE LongDiv(_, _, _, _)
LongDiv(q, rem, b, k) ==
    IF k = 0 THEN q
    ELSE LongDiv(q * 10 + ((rem * 10) \div b), (rem * 10) % b, b, k - 1)

ScaledDiv(a, b, k) == LongDiv(a \div b, a % b, b, k)

(* round(x, 2): x in units of 1/scale, result a multiple of step,     *)
(* ties to the even multiple; symmetric about zero.                   *)
RoundTo(x, step) ==
    LET a == Abs(x)
        q == a \div step
        rem == a % step
        up == \/ 2 * rem > step
              \/ (2 * rem = step /\ q % 2 = 1)
        m == (IF up THEN q + 1 ELSE q) * step
    IN IF x < 0 THEN 0 - m ELSE m

round_money(x) == RoundTo(x, MoneyScale)
round_months(x) == RoundTo(x, MonthScale \div 100)

(* The month count, had int() been taken without math.ceil. *)
ceil_months_Truncating(m) == m \div MonthScale

(* math.ceil on a month count, as a whole number of months. *)
ceil_months(m) ==
    IF m % MonthScale = 0 THEN m \div MonthScale ELSE (m \div MonthScale) + 1

(* (1 + r) ** -n for whole n >= 0, r = rate/1200, in fixed point. *)
RECURSIVE Discount(_, _)
Discount(rate, n) ==
    IF n = 0 THEN FixOne
    ELSE (Discount(rate, n - 1) * RateDen) \div (RateDen + rate)

(* r = annual_rate / 12 / 100 in fixed point. *)
RateFix(rate) == (rate * FixOne) \div RateDen

(* a * b for fixed-point a, b >= 0, in two halves to stay within 32 bits. *)
FixMul(a, b) == ((a * (b \div 1000)) + ((a * (b % 1000)) \div 1000)) \div (FixOne \div 1000)

(* ln(1 + x) for a small fixed-point x >= 0: x - x^2/2 + x^3/3. *)
LnOnePlus(x) == x - (FixMul(x, x) \div 2) + (FixMul(FixMul(x, x), x) \div 3)

(* exp(-y) for a small fixed-point y >= 0: 1 - y + y^2/2 - y^3/6. *)
ExpMinus(y) == FixOne - y + (FixMul(y, y) \div 2) - (FixMul(FixMul(y, y), y) \div 6)

(* (1 + r) ** -months: whole months by repeated division, the remaining   *)
(* fraction f of a month as exp(-f * ln(1 + r)).                          *)
DiscountMonths(rate, months) ==
    LET n == months \div MonthScale
        f == months % MonthScale
        v == Discount(rate, n)
        y == (LnOnePlus(RateFix(rate)) * f) \div MonthScale
    IN IF f = 0 THEN v ELSE FixMul(v, ExpMinus(y))

(* principal * r, in money units. *)
InterestOn(balance, rate) == (balance * rate) \div RateDen

calculate_monthly_payment(principal, annual_rate, months) ==
    IF annual_rate = 0
    THEN ((principal \div months) * MonthScale)
           + (((principal % months) * MonthScale) \div months)
    ELSE LET a == InterestOn(principal, annual_rate)
             d == FixOne - DiscountMonths(annual_rate, months)
         IN ScaledDiv(a, d, FixDigits)

(* Largest whole n with (1+r)^n <= x, given 1/x in fixed point: the whole  *)
(* part of log(x) / log(1 + r).                                            *)
RECURSIVE WholePeriods(_, _, _)
WholePeriods(rate, invx, n) ==
    IF Discount(rate, n + 1) >= invx /\ Discount(rate, n + 1) < Discount(rate, n)
    THEN WholePeriods(rate, invx, n + 1)
    ELSE n

(* calculate_months either returns a month count or raises. *)
Ok(v) == [tag |-> "ok", value |-> v]
Raise(e) == [tag |-> e, value |-> 0]

calculate_months(principal, annual_rate, payment) ==
    IF annual_rate = 0
    THEN IF payment = 0 THEN Raise("ZeroDivisionError")
         ELSE Ok(ScaledDiv(principal, payment, 4))
    ELSE LET a == InterestOn(principal, annual_rate)
             c == payment - a
         IN IF c = 0 THEN Raise("ZeroDivisionError")
            ELSE IF (payment > 0) # (c > 0) THEN Raise("ValueError")
            ELSE LET invx == FixOne - ScaledDiv(Abs(a), Abs(payment), FixDigits)
                     n == WholePeriods(annual_rate, invx, 0)
                     t == ScaledDiv(Discount(annual_rate, n) - invx, invx, FixDigits)
                     f == ScaledDiv(LnOnePlus(t), LnOnePlus(RateFix(annual_rate)), 4)
                 IN Ok(WholeMonths(n) + (IF f >= MonthScale THEN MonthScale - 1 ELSE f))

(***************************************************************************)
(* Dates.  A stored date is text; IsoDates lists the texts of the model    *)
(* that strptime('%Y-%m-%d') accepts, every other text is rejected.        *)
(***************************************************************************)
Date(y, m, d) == [year |-> y, month |-> m, day |-> d]

IsoDates ==
    [s \in {"2025-12-31", "2026-01-31", "2026-03-10", "2026-11-05"} |->
        CASE s = "2025-12-31" -> Date(2025, 12, 31)
          [] s = "2026-01-31" -> Date(2026, 1, 31)
          [] s = "2026-03-10" -> Date(2026, 3, 10)
          [] s = "2026-11-05" -> Date(2026, 11, 5)]

TodayIso == "2026-11-05"
Today == IsoDates[TodayIso]

_parse_iso_date(value) ==
    IF IsNone(value) \/ value = Some("") THEN None
    ELSE IF Val(value) \in DOMAIN IsoDates THEN Some(IsoDates[Val(value)])
    ELSE None

IsLeap(y) == (y % 4 = 0 /\ y % 100 # 0) \/ y % 400 = 0

DaysInMonth(y, m) ==
    IF m = 2 THEN (IF IsLeap(y) THEN 29 ELSE 28)
    ELSE IF m \in {4, 6, 9, 11} THEN 30 ELSE 31

_add_months(start_date, months) ==
    LET year == start_date.year + ((start_date.month - 1 + months) \div 12)
        month == ((start_date.month - 1 + months) % 12) + 1
        dim == DaysInMonth(year, month)
        day == IF start_date.day < dim THEN start_date.day ELSE dim
    IN Date(year, month, day)

DateLeq(a, b) ==
    \/ a.year < b.year
    \/ a.year = b.year /\ a.month < b.month
    \/ a.year = b.year /\ a.month = b.month /\ a.day <= b.day

(* dict.get(key, default) *)
Get(d, key, default) == IF key \in DOMAIN d THEN d[key] ELSE default

_coerce_months(value) == IF IsNone(value) THEN 0 ELSE Val(value)

_coerce_float(value) == IF IsNone(value) THEN 0 ELSE Val(value)

_schedule_start_date(loan) ==
    LET start == _parse_iso_date(Get(loan, "start_date", None))
        pays == Get(loan, "payments", <<>>)
        payment_dates ==
            {Val(_parse_iso_date(Get(pays[i], "date", None))) :
                i \in {j \in 1..Len(pays) :
                         ~IsNone(_parse_iso_date(Get(pays[j], "date", None)))}}
    IN IF ~IsNone(start) THEN Val(start)
       ELSE IF payment_dates # {}
       THEN CHOOSE d \in payment_dates : \A e \in payment_dates : DateLeq(d, e)
       ELSE Date(Today.year, Today.month, 1)

(***************************************************************************)
(* Loan term resolver                                                      *)
(***************************************************************************)
Terms(p, r, m, pay) ==
    [tag |-> "ok", principal |-> p, annual_rate |-> r, months |-> m, payment |-> pay]

Failed(e) ==
    [tag |-> e, principal |-> 0, annual_rate |-> 0, months |-> 0, payment |-> 0]

_resolve_loan_terms(loan) ==
    LET principal == _coerce_float(Get(loan, "principal", Some(0)))
        annual_rate == _coerce_float(Get(loan, "interest_rate", Some(0)))
        months0 == _coerce_months(Get(loan, "months", Some(0)))
        payment0 == _coerce_float(Get(loan, "payment_per_month", Some(0)))
    IN IF principal <= 0 THEN Terms(principal, annual_rate, 0, 0)
       ELSE LET cm == IF months0 <= 0 /\ payment0 > 0
                      THEN calculate_months(principal, annual_rate, payment0)
                      ELSE Ok(months0)
            IN IF cm.tag # "ok" THEN Failed(cm.tag)
               ELSE LET months == cm.value
                        payment == IF payment0 <= 0 /\ months > 0
                                   THEN calculate_monthly_payment(principal, annual_rate, months)
                                   ELSE payment0
                    IN Terms(principal, annual_rate, months, payment)

(***************************************************************************)
(* Payment ledger grouping: the dict period -> summed amount.              *)
(***************************************************************************)
(* The period of a payment, had the clamp to total_periods been left out. *)
period_index_NoUpperClamp(payment_date, start_date, total_periods) ==
    LET months_delta == (payment_date.year - start_date.year) * 12
                          + (payment_date.month - start_date.month)
        idx == months_delta + 1
    IN IF idx < 1 THEN 1 ELSE idx

period_index(payment_date, start_date, total_periods) ==
    LET months_delta == (payment_date.year - start_date.year) * 12
                          + (payment_date.month - start_date.month)
        idx == months_delta + 1
    IN IF idx < 1 THEN 1
       ELSE IF idx > total_periods THEN total_periods
       ELSE idx

RECURSIVE GroupLoop(_, _, _, _, _)
GroupLoop(payments, i, start_date, total_periods, grouped) ==
    IF i > Len(payments) THEN grouped
    ELSE LET payment == payments[i]
             amount == _coerce_float(Get(payment, "amount", None))
             parsed == _parse_iso_date(Get(payment, "date", None))
             payment_date == IF IsNone(parsed) THEN start_date ELSE Val(parsed)
             k == period_index(payment_date, start_date, total_periods)
             g == [p \in (DOMAIN grouped) \cup {k} |->
                     IF p = k THEN Get(grouped, k, 0) + amount ELSE grouped[p]]
         IN GroupLoop(payments, i + 1, start_date, total_periods,
                      IF amount = 0 THEN grouped ELSE g)

_group_payments_by_period(payments, start_date, total_periods) ==
    GroupLoop(payments, 1, start_date, total_periods, <<>>)

(***************************************************************************)
(* Amortization scheduler                                                  *)
(***************************************************************************)
(* The scheduled payment, had the final period kept the fixed payment. *)
ScheduledPayment_NoBalloon(period, total_periods, begin_balance, interest, annual_rate, payment) ==
    IF annual_rate # 0 /\ payment <= interest THEN interest ELSE payment

(* Lines 195-202: the scheduled payment of a period, before rounding. *)
ScheduledPayment(period, total_periods, begin_balance, interest, annual_rate, payment) ==
    IF period = total_periods THEN begin_balance + interest
    ELSE IF annual_rate # 0 /\ payment <= interest THEN interest
    ELSE payment

(* The actual payment, had a recorded sum of zero counted as none recorded. *)
ActualPayment_Falsy(payments_by_period, period, payment_amount) ==
    IF period \in DOMAIN payments_by_period /\ payments_by_period[period] # 0
    THEN round_money(payments_by_period[period])
    ELSE payment_amount

(* Lines 219-223: the payment recorded for the period, else the scheduled one. *)
ActualPayment(payments_by_period, period, payment_amount) ==
    IF period \in DOMAIN payments_by_period
    THEN round_money(payments_by_period[period])
    ELSE payment_amount

(* One iteration of the loop over periods (lines 193-235): the row appended. *)
ScheduleRow(period, total_periods, begin_balance, annual_rate, payment, payments_by_period, start_date) ==
    LET interest0 == IF annual_rate # 0 THEN InterestOn(begin_balance, annual_rate) ELSE 0
        payment0 == ScheduledPayment(period, total_periods, begin_balance, interest0, annual_rate, payment)
        principal0 == payment0 - interest0
        end0 == begin_balance - principal0
        interest == round_money(interest0)
        payment1 == round_money(payment0)
        principal1 == round_money(principal0)
        end1 == round_money(end0)
        payment_amount == IF end1 < 0 THEN round_money(payment1 + end1) ELSE payment1
        principal_component ==
            IF end1 < 0 THEN round_money(payment_amount - interest) ELSE principal1
        end_balance == IF end1 < 0 THEN 0 ELSE end1
    IN [number |-> period,
        date |-> _add_months(start_date, period - 1),
        begin_balance |-> round_money(begin_balance),
        payment |-> payment_amount,
        actual_payment |-> ActualPayment(payments_by_period, period, payment_amount),
        interest |-> interest,
        principal |-> principal_component,
        end_balance |-> Max(end_balance, 0),
        is_final |-> (period = total_periods)]

(* The carried balance, had it been the opening balance less the payment. *)
CarriedBalance_NoInterest(row) == row.begin_balance - row.payment

(* Line 237: the balance the next period opens with. *)
CarriedBalance(row) == row.end_balance

RECURSIVE ScheduleLoop(_, _, _, _, _, _, _, _)
ScheduleLoop(period, total_periods, balance, annual_rate, payment, payments_by_period, start_date, schedule) ==
    IF period > total_periods THEN schedule
    ELSE LET row == ScheduleRow(period, total_periods, balance, annual_rate,
                                payment, payments_by_period, start_date)
         IN ScheduleLoop(period + 1, total_periods, CarriedBalance(row), annual_rate,
                         payment, payments_by_period, start_date,
                         Append(schedule, row))

Rows(rs) == [tag |-> "ok", rows |-> rs]
RaiseRows(e) == [tag |-> e, rows |-> <<>>]

generate_amortization_schedule(loan) ==
    LET t == _resolve_loan_terms(loan)
    IN IF t.tag # "ok" THEN RaiseRows(t.tag)
       ELSE IF t.principal <= 0 \/ t.months <= 0 \/ t.payment <= 0 THEN Rows(<<>>)
       ELSE LET start_date == _schedule_start_date(loan)
                total_periods == Max(ceil_months(t.months), 1)
                payments_by_period ==
                    _group_payments_by_period(Get(loan, "payments", <<>>),
                                              start_date, total_periods)
            IN Rows(ScheduleLoop(1, total_periods, t.principal, t.annual_rate,
                                 t.payment, payments_by_period, start_date, <<>>))

(***************************************************************************)
(* Persistence: load_loan and save_loan                                    *)
(***************************************************************************)
Put(d, key, v) == [k \in (DOMAIN d) \cup {key} |-> IF k = key THEN v ELSE d[k]]

RECURSIVE SumPayments(_, _)
SumPayments(rows, i) ==
    IF i > Len(rows) THEN 0 ELSE rows[i].payment + SumPayments(rows, i + 1)

Loaded(l) == [tag |-> "ok", loan |-> l]
LoadFailed(e) == [tag |-> e, loan |-> <<>>]

(* Lines 97-101: the resolved terms t written over the loan's own. *)
WithTerms(l, t) ==
    Put(Put(Put(Put(l, "principal", Some(t.principal)),
                "interest_rate", Some(t.annual_rate)),
            "months", Some(t.months)),
        "payment_per_month", Some(t.payment))

(* Lines 106-108: the loan with the sum of its scheduled payments. *)
WithTotal(l, amortization) ==
    IF amortization.tag # "ok" THEN LoadFailed(amortization.tag)
    ELSE Loaded(Put(l, "total_expected_repayment",
                    IF amortization.rows # <<>>
                    THEN round_money(SumPayments(amortization.rows, 1))
                    ELSE 0))

(* Lines 103-108; the schedule is built once. *)
Enriched(l) ==
    CHOOSE ld \in {WithTotal(l, amortization) :
                      amortization \in {generate_amortization_schedule(l)}} : TRUE

(* file: the content of <loan_id>.json, or None when there is no such file. *)
(* The terms are resolved once.                                             *)
load_loan(loan_id, file) ==
    IF IsNone(file) THEN LoadFailed("FileNotFoundError")
    ELSE LET l0 == Put(Val(file), "id", loan_id)
             l1 == Put(l0, "payments", Get(l0, "payments", <<>>))
         IN CHOOSE ld \in {IF t.tag # "ok" THEN LoadFailed(t.tag)
                           ELSE Enriched(WithTerms(l1, t)) :
                             t \in {_resolve_loan_terms(l1)}} : TRUE

(* The dict that save_loan dumps: every key of the loan but 'id'. *)
save_loan(l) == [k \in (DOMAIN l) \ {"id"} |-> l[k]]

(***************************************************************************)
(* Request handlers: what each computes between reading and writing.       *)
(***************************************************************************)
(* child.lower().replace(' ', '_') on the names of the model. *)
Children == {"Kid A"}

Slug(child) ==
    CASE child = "Kid A" -> "kid_a"

(* Lines 267-270 and 312-315: a value <= 0 counts as not given. *)
PositiveOrNone(o) == IF ~IsNone(o) /\ Val(o) <= 0 THEN None ELSE o

RoundedMonths(o) == IF IsNone(o) THEN None ELSE Some(round_months(Val(o)))
RoundedMoney(o) == IF IsNone(o) THEN None ELSE Some(round_money(Val(o)))

Handled(l) == [tag |-> "ok", loan |-> l]
HandlerRaised(e) == [tag |-> e, loan |-> <<>>]

(* add_loan, POST: the loan handed to save_loan, or the exception raised. *)
add_loan(form) ==
    LET principal == form.principal
        rate == form.rate
        months0 == PositiveOrNone(form.months)
        payment0 == PositiveOrNone(form.payment)
        cm == IF ~Truthy(months0) /\ Truthy(payment0)
              THEN calculate_months(principal, rate, Val(payment0))
              ELSE Ok(0)
        months == IF Truthy(months0) THEN months0
                  ELSE IF Truthy(payment0) THEN Some(cm.value)
                  ELSE Some(WholeMonths(DefaultMonths))
        payment == IF Truthy(payment0) THEN payment0
                   ELSE Some(calculate_monthly_payment(principal, rate, Val(months)))
    IN IF cm.tag # "ok" THEN HandlerRaised(cm.tag)
       ELSE Handled([id |-> Slug(form.child),
                     child |-> form.child,
                     principal |-> Some(principal),
                     interest_rate |-> Some(rate),
                     months |-> RoundedMonths(months),
                     payment_per_month |-> RoundedMoney(payment),
                     payments |-> <<>>])

(* edit_loan, POST, after load_loan returned l. *)
edit_loan(l, form) ==
    LET principal == form.principal
        rate == IF IsNone(form.rate) THEN 0 ELSE Val(form.rate)
        months0 == PositiveOrNone(form.months)
        payment0 == PositiveOrNone(form.payment)
        cm == IF ~Truthy(months0) /\ Truthy(payment0)
              THEN calculate_months(principal, rate, Val(payment0))
              ELSE Ok(0)
        months == IF Truthy(months0) THEN months0
                  ELSE IF Truthy(payment0) THEN Some(cm.value)
                  ELSE Some(_coerce_months(Get(l, "months", Some(0))))
        payment == IF Truthy(payment0) THEN payment0
                   ELSE IF Truthy(months0)
                   THEN Some(calculate_monthly_payment(principal, rate, Val(months0)))
                   ELSE Some(_coerce_float(Get(l, "payment_per_month", Some(0))))
    IN IF cm.tag # "ok" THEN HandlerRaised(cm.tag)
       ELSE Handled(Put(Put(Put(Put(l, "principal", Some(principal)),
                                    "interest_rate", Some(rate)),
                                "months", RoundedMonths(months)),
                            "payment_per_month", RoundedMoney(payment)))

(* add_payment, POST, after load_loan returned l. *)
add_payment(l, form) ==
    LET pay_date == IF form.date = "" THEN TodayIso ELSE form.date
        entry == [date |-> Some(pay_date), amount |-> Some(form.amount), comment |-> form.comment]
    IN Handled(Put(l, "payments", Append(Get(l, "payments", <<>>), entry)))

(* edit_payment, POST, after load_loan returned l; payment_index is 0-based. *)
edit_payment(l, payment_index, form) ==
    LET payments == Get(l, "payments", <<>>)
        entry == [date |-> Some(form.date), amount |-> Some(form.amount), comment |-> form.comment]
    IN IF payment_index < 0 \/ payment_index >= Len(payments) THEN HandlerRaised("NotFound")
       ELSE Handled(Put(l, "payments",
                        [payments EXCEPT ![payment_index + 1] =
                            Put(Put(Put(@, "amount", entry.amount), "date", entry.date),
                                "comment", entry.comment)]))

(***************************************************************************)
(* Inputs of the scheduler and of the grouping, drawn from bounded sets.   *)
(***************************************************************************)
MaxPayments == 2

RECURSIVE SeqsUpTo(_, _)
SeqsUpTo(S, n) ==
    IF n = 0 THEN {<<>>}
    ELSE LET shorter == SeqsUpTo(S, n - 1)
         IN shorter \cup {Append(q, x) : q \in {t \in shorter : Len(t) = n - 1}, x \in S}

Payment(d, a) == [date |-> Some(d), amount |-> Some(a), comment |-> ""]

(* 20.00 and -20.00 in March 2026, an amount of zero, and 20.00 1/3 with a *)
(* date that does not parse.                                               *)
PaymentInputs ==
    {Payment("2026-03-10", Cents(2000)), Payment("2026-03-10", Cents(-2000)),
     Payment("2026-03-10", 0), Payment("not a date", Cents(2000) + 400)}

PrincipalInputs == {Some(0), Some(Cents(-500)), Some(Cents(100)), Some(Cents(9600))}
RateInputs == {Some(0), Some(12), Some(50)}
MonthsInputs == {None, Some(0), Some(WholeMonths(1)), Some(WholeMonths(3)), Some(25000)}
PaymentPerMonthInputs ==
    {None, Some(0), Some(Cents(300)), Some(Cents(400)), Some(3400123), Some(Cents(7000))}
StartDateInputs == {None, Some("2026-01-31")}

(* Loans of less than a cent and of one cent at 200% a month. *)
HighRateLoanInputs ==
    [principal : {Some(360), Some(Cents(1))},
     interest_rate : {Some(2400)},
     months : {Some(WholeMonths(2))},
     payment_per_month : {Some(1740), Some(Cents(5))},
     start_date : {None},
     payments : {<<>>}]

LoanInputs ==
    [principal : PrincipalInputs,
     interest_rate : RateInputs,
     months : MonthsInputs,
     payment_per_month : PaymentPerMonthInputs,
     start_date : StartDateInputs,
     payments : SeqsUpTo(PaymentInputs, MaxPayments)]
      \cup HighRateLoanInputs

MaxTotalPeriods == 3

LedgerInputs ==
    [payments : SeqsUpTo(PaymentInputs \cup {Payment("2025-12-31", Cents(500)), Payment("2026-01-31", Cents(700))}, MaxPayments),
     start_date : {IsoDates["2026-01-31"], IsoDates["2026-03-10"]},
     total_periods : 1..MaxTotalPeriods]

LoanIds == {"kid_a"}
Slots == {1, 2}
Idle == [pc |-> "idle"]

StoreInit == store = [id \in LoanIds |-> None]
RequestsInit == req = [s \in Slots |-> Idle] /\ started = 0 /\ writes = 0

(* The scheduler applied to one loan. *)
SchedInit ==
    /\ StoreInit /\ RequestsInit
    /\ in_loan \in {Some(l) : l \in LoanInputs}
    /\ out_schedule = None
    /\ in_ledger = None /\ out_grouped = None

Generate ==
    /\ ~IsNone(in_loan) /\ IsNone(out_schedule)
    /\ out_schedule' = Some(generate_amortization_schedule(Val(in_loan)))
    /\ UNCHANGED <<store, req, started, writes, in_loan, in_ledger, out_grouped>>

SchedNext == Generate

SchedSpec == SchedInit /\ [][SchedNext]_vars

(* The grouping applied to one list of payments. *)
GroupInit ==
    /\ StoreInit /\ RequestsInit
    /\ in_loan = None /\ out_schedule = None
    /\ in_ledger \in {Some(l) : l \in LedgerInputs}
    /\ out_grouped = None

GroupPayments ==
    /\ ~IsNone(in_ledger) /\ IsNone(out_grouped)
    /\ out_grouped' = Some(_group_payments_by_period(Val(in_ledger).payments, Val(in_ledger).start_date, Val(in_ledger).total_periods))
    /\ UNCHANGED <<store, req, started, writes, in_loan, out_schedule, in_ledger>>

GroupNext == GroupPayments

GroupSpec == GroupInit /\ [][GroupNext]_vars

(***************************************************************************)
(* The web application: two request slots served concurrently over one     *)
(* data directory.  A handler that loads a loan and later saves it takes   *)
(* two steps, the file read and the file write; the computation between    *)
(* them is local to the request.                                           *)
(***************************************************************************)
MaxRequests == 3

AddLoanForms ==
    [child : Children,
     principal : {Cents(9600)},
     rate : {0, 50},
     months : {None, Some(WholeMonths(3))},
     payment : {None, Some(Cents(300)), Some(Cents(400))}]

EditLoanForms ==
    [principal : {Cents(9600)},
     rate : {Some(50)},
     months : {None, Some(0), Some(WholeMonths(2))},
     payment : {None, Some(Cents(300))}]

AddPaymentForms ==
    {[amount |-> Cents(2000), date |-> "", comment |-> ""],
     [amount |-> Cents(500), date |-> "2026-03-10", comment |-> ""]}

EditPaymentForms ==
    [amount : {Cents(700)}, date : {"2026-01-31"}, comment : {"late"}]

(* A new request is served by the first slot that is not inside a handler. *)
Free(s) ==
    /\ started < MaxRequests
    /\ req[s].pc # "saving"
    /\ \A t \in Slots : t < s => req[t].pc = "saving"

Done(kind, loan_id, form, outcome, l, read_at, wrote_at) ==
    [pc |-> "done", kind |-> kind, loan_id |-> loan_id, form |-> form,
     outcome |-> outcome, loan |-> l, read_at |-> read_at, wrote_at |-> wrote_at]

Saving(kind, loan_id, form, l, read_at) ==
    [pc |-> "saving", kind |-> kind, loan_id |-> loan_id, form |-> form,
     outcome |-> "", loan |-> l, read_at |-> read_at, wrote_at |-> 0]

(* POST /loan/add: no file is read; the record is written in one step. *)
AddLoan(s) ==
    /\ Free(s)
    /\ \E form \in AddLoanForms :
          \E h \in {add_loan(form)} :
             IF h.tag = "ok"
             THEN /\ store' = [store EXCEPT ![h.loan.id] = Some(save_loan(h.loan))]
                  /\ writes' = writes + 1
                  /\ req' = [req EXCEPT ![s] =
                        Done("add_loan", h.loan.id, form, "redirect", h.loan, writes, writes + 1)]
             ELSE /\ req' = [req EXCEPT ![s] =
                        Done("add_loan", Slug(form.child), form, h.tag, <<>>, writes, 0)]
                  /\ UNCHANGED <<store, writes>>
    /\ started' = started + 1
    /\ UNCHANGED <<in_loan, out_schedule, in_ledger, out_grouped>>

(* The first step of a handler that starts with load_loan: h is what the  *)
(* handler computes from the loaded loan.                                 *)
Begin(s, kind, loan_id, form, ld, h) ==
    /\ req' = [req EXCEPT ![s] =
          IF ld.tag # "ok" THEN Done(kind, loan_id, form, ld.tag, <<>>, writes, 0)
          ELSE IF h.tag # "ok" THEN Done(kind, loan_id, form, h.tag, <<>>, writes, 0)
          ELSE Saving(kind, loan_id, form, h.loan, writes)]
    /\ started' = started + 1
    /\ UNCHANGED <<store, writes, in_loan, out_schedule, in_ledger, out_grouped>>

(* POST /loan/<loan_id>/edit up to save_loan. *)
EditLoan(s) ==
    /\ Free(s)
    /\ \E loan_id \in LoanIds, form \in EditLoanForms :
          \E ld \in {load_loan(loan_id, store[loan_id])} :
             \E h \in {edit_loan(ld.loan, form)} :
                Begin(s, "edit_loan", loan_id, form, ld, h)

(* POST /loan/<loan_id>/payment up to save_loan. *)
AddPayment(s) ==
    /\ Free(s)
    /\ \E loan_id \in LoanIds, form \in AddPaymentForms :
          \E ld \in {load_loan(loan_id, store[loan_id])} :
             \E h \in {add_payment(ld.loan, form)} :
                /\ ld.tag = "ok" => Len(ld.loan.payments) < MaxPayments
                /\ Begin(s, "add_payment", loan_id, form, ld, h)

(* POST /loan/<loan_id>/payment/<payment_index>/edit up to save_loan. *)
EditPayment(s) ==
    /\ Free(s)
    /\ \E loan_id \in LoanIds, payment_index \in 0..(MaxPayments - 1), form \in EditPaymentForms :
          \E ld \in {load_loan(loan_id, store[loan_id])} :
             \E h \in {edit_payment(ld.loan, payment_index, form)} :
                Begin(s, "edit_payment", loan_id, form, ld, h)

(* save_loan, had it kept the payments stored since the handler read. *)
SaveLoan_Merging(s) ==
    /\ req[s].pc = "saving"
    /\ LET current == Val(store[req[s].loan_id]).payments
           mine == req[s].loan.payments
           merged == IF req[s].kind = "add_payment"
                     THEN Append(current, mine[Len(mine)])
                     ELSE mine
       IN store' = [store EXCEPT ![req[s].loan_id] =
                        Some(save_loan(Put(req[s].loan, "payments", merged)))]
    /\ writes' = writes + 1
    /\ req' = [req EXCEPT ![s] =
          Done(req[s].kind, req[s].loan_id, req[s].form, "redirect", req[s].loan,
               req[s].read_at, writes + 1)]
    /\ UNCHANGED <<started, in_loan, out_schedule, in_ledger, out_grouped>>

(* save_loan and the redirect that ends the request. *)
SaveLoan(s) ==
    /\ req[s].pc = "saving"
    /\ store' = [store EXCEPT ![req[s].loan_id] = Some(save_loan(req[s].loan))]
    /\ writes' = writes + 1
    /\ req' = [req EXCEPT ![s] =
          Done(req[s].kind, req[s].loan_id, req[s].form, "redirect", req[s].loan,
               req[s].read_at, writes + 1)]
    /\ UNCHANGED <<started, in_loan, out_schedule, in_ledger, out_grouped>>

(* GET /loan/<loan_id>: the loan is loaded and its schedule built. *)
LoanDetails(s) ==
    /\ Free(s)
    /\ \E loan_id \in LoanIds :
          \E ld \in {load_loan(loan_id, store[loan_id])} :
             \E rows \in {generate_amortization_schedule(ld.loan)} :
                req' = [req EXCEPT ![s] =
                IF ld.tag # "ok" THEN Done("loan_details", loan_id, <<>>, ld.tag, <<>>, writes, 0)
                ELSE IF rows.tag # "ok"
                THEN Done("loan_details", loan_id, <<>>, rows.tag, <<>>, writes, 0)
                ELSE Done("loan_details", loan_id, <<>>, "page",
                          Put(ld.loan, "amortization_schedule", rows.rows), writes, 0)]
    /\ started' = started + 1
    /\ UNCHANGED <<store, writes, in_loan, out_schedule, in_ledger, out_grouped>>

Init ==
    /\ StoreInit /\ RequestsInit
    /\ in_loan = None /\ out_schedule = None
    /\ in_ledger = None /\ out_grouped = None

Next ==
    \E s \in Slots :
        \/ AddLoan(s)
        \/ EditLoan(s)
        \/ AddPayment(s)
        \/ EditPayment(s)
        \/ SaveLoan(s)
        \/ LoanDetails(s)

Spec == Init /\ [][Next]_vars

(***************************************************************************)
(* Properties of the scheduler (SchedSpec) and of the grouping (GroupSpec) *)
(***************************************************************************)
Generated == ~IsNone(out_schedule)
Resolved == _resolve_loan_terms(Val(in_loan))
ValidLoan ==
    /\ Resolved.tag = "ok"
    /\ Resolved.principal > 0 /\ Resolved.months > 0 /\ Resolved.payment > 0
Returned == Generated /\ Val(out_schedule).tag = "ok"
OutRows == Val(out_schedule).rows
LastRow == OutRows[Len(OutRows)]

(* C1: for a loan with principal > 0, resolved term > 0 and resolved payment > 0 *)
(* the schedule is non-empty and the end_balance of its last row is exactly 0.  *)
C1_ClosesAtZero ==
    (Generated /\ ValidLoan) =>
        /\ Val(out_schedule).tag = "ok"
        /\ OutRows # <<>>
        /\ LastRow.end_balance = 0

(* A three-row schedule at a nonzero rate with recorded payments whose balloon *)
(* payment differs from the fixed payment and closes the loan.                 *)
C1_Witness ==
    /\ Generated /\ ValidLoan /\ Returned
    /\ Len(OutRows) = 3
    /\ Resolved.annual_rate > 0
    /\ Val(in_loan).payments # <<>>
    /\ OutRows[2].end_balance > 0
    /\ LastRow.payment # round_money(Resolved.payment)
    /\ LastRow.end_balance = 0

(* C2: each row opens with the balance the previous row closed with, and no *)
(* row closes with a negative balance.                                      *)
C2_BalancesChain ==
    Returned =>
        /\ \A i \in 1..(Len(OutRows) - 1) :
              OutRows[i + 1].begin_balance = OutRows[i].end_balance
        /\ \A i \in 1..Len(OutRows) : OutRows[i].end_balance >= 0

(* A schedule whose fixed payment exceeds the balance of a non-final period: *)
(* the rounding correction closes that row at 0 and the next row opens at 0. *)
C2_Witness ==
    /\ Returned /\ Len(OutRows) = 3
    /\ Resolved.annual_rate > 0
    /\ OutRows[1].end_balance > 0
    /\ OutRows[2].begin_balance = OutRows[1].end_balance
    /\ OutRows[2].payment < round_money(Resolved.payment)
    /\ OutRows[2].end_balance = 0
    /\ OutRows[3].begin_balance = 0

(* C3: every non-final row has principal component >= 0, its scheduled *)
(* payment being at least its interest.                                *)
C3_NoNegativeAmortization ==
    Returned =>
        \A i \in 1..Len(OutRows) :
            ~OutRows[i].is_final =>
                /\ OutRows[i].principal >= 0
                /\ OutRows[i].payment >= OutRows[i].interest

MaxRows == 64

(* The ceiling of the resolved term, stated without math.ceil. *)
CeilingOfTerm ==
    LET term == Resolved.months
    IN CHOOSE n \in 0..MaxRows :
          /\ n * MonthScale >= term
          /\ (n - 1) * MonthScale < term

(* C7: the schedule is empty exactly when principal, resolved term or resolved *)
(* payment is <= 0; otherwise it has ceiling(term) rows numbered 1..N in order *)
(* with is_final on row N alone.                                               *)
C7_RowCount ==
    Returned =>
        /\ (OutRows = <<>>) <=>
              LET t == Resolved
              IN t.principal <= 0 \/ t.months <= 0 \/ t.payment <= 0
        /\ OutRows # <<>> =>
              /\ Len(OutRows) = CeilingOfTerm
              /\ \A i \in 1..Len(OutRows) :
                    /\ OutRows[i].number = i
                    /\ OutRows[i].is_final = (i = Len(OutRows))

(* A fractional resolved term (2.5 months) scheduled over three rows. *)
C7_Witness ==
    /\ Returned /\ ValidLoan
    /\ Resolved.months % MonthScale # 0
    /\ Len(OutRows) = 3
    /\ OutRows[3].is_final /\ ~OutRows[2].is_final

(* The ledger of a period, stated from the payments: the nonzero payments whose *)
(* month difference to the start, plus one, clamped to [1, total], is k.        *)
AmountOf(pay) == IF IsNone(pay.amount) THEN 0 ELSE Val(pay.amount)

MonthOf(pay, start) ==
    IF ~IsNone(pay.date) /\ Val(pay.date) \in DOMAIN IsoDates
    THEN IsoDates[Val(pay.date)].year * 12 + IsoDates[Val(pay.date)].month
    ELSE start.year * 12 + start.month

ClampedPeriod(pay, start, total) ==
    LET raw == MonthOf(pay, start) - (start.year * 12 + start.month) + 1
        low == IF raw > 1 THEN raw ELSE 1
    IN IF low < total THEN low ELSE total

Attributed(pays, start, total, k) ==
    {i \in 1..Len(pays) : AmountOf(pays[i]) # 0 /\ ClampedPeriod(pays[i], start, total) = k}

RECURSIVE SumAmounts(_, _)
SumAmounts(pays, I) ==
    IF I = {} THEN 0
    ELSE LET i == CHOOSE j \in I : TRUE
         IN AmountOf(pays[i]) + SumAmounts(pays, I \ {i})

RECURSIVE SumValues(_, _)
SumValues(f, K) ==
    IF K = {} THEN 0
    ELSE LET k == CHOOSE j \in K : TRUE
         IN f[k] + SumValues(f, K \ {k})

Grouped == ~IsNone(out_grouped)
Ledger == Val(in_ledger)

(* C8: every key lies in [1, totalPeriods], a period is a key exactly when a  *)
(* nonzero payment maps to it, its value is the sum of those payments, and the *)
(* values add up to the sum of all nonzero payment amounts.                    *)
C8_GroupedByPeriod ==
    Grouped =>
        LET g == Val(out_grouped)
            att(k) == Attributed(Ledger.payments, Ledger.start_date, Ledger.total_periods, k)
        IN /\ DOMAIN g \subseteq 1..Ledger.total_periods
           /\ \A k \in 1..Ledger.total_periods :
                 /\ (k \in DOMAIN g) <=> (att(k) # {})
                 /\ k \in DOMAIN g => g[k] = SumAmounts(Ledger.payments, att(k))
           /\ SumValues(g, DOMAIN g)
                 = SumAmounts(Ledger.payments, 1..Len(Ledger.payments))

(* Two payments, one dated before the start and one after the last period, *)
(* clamped to the first and to the last period.                            *)
C8_Witness ==
    /\ Grouped
    /\ Ledger.total_periods = 2
    /\ Len(Ledger.payments) = 2
    /\ \E i, j \in 1..2 :
          /\ MonthOf(Ledger.payments[i], Ledger.start_date)
                < Ledger.start_date.year * 12 + Ledger.start_date.month
          /\ MonthOf(Ledger.payments[j], Ledger.start_date)
                > Ledger.start_date.year * 12 + Ledger.start_date.month + 1
    /\ DOMAIN Val(out_grouped) = {1, 2}

(* The schedule of the same loan with no payment recorded. *)
WithoutPayments == generate_amortization_schedule([Val(in_loan) EXCEPT !.payments = <<>>])

ScheduledFieldsUnchanged ==
    LET bare == WithoutPayments.rows
    IN /\ Len(bare) = Len(OutRows)
       /\ \A k \in 1..Len(OutRows) :
             /\ OutRows[k].payment = bare[k].payment
             /\ OutRows[k].interest = bare[k].interest
             /\ OutRows[k].principal = bare[k].principal
             /\ OutRows[k].begin_balance = bare[k].begin_balance
             /\ OutRows[k].end_balance = bare[k].end_balance

(* C9 as stated: actual_payment is the ledger amount of the period when a   *)
(* nonzero payment was attributed to it (also when they sum to zero), else  *)
(* the scheduled payment; recorded payments change no scheduled payment,    *)
(* interest, principal component or balance.                                *)
C9_ActualPaymentIsLedgerAmount ==
    Returned =>
        LET pays == Val(in_loan).payments
            start == _schedule_start_date(Val(in_loan))
            att(k) == Attributed(pays, start, Len(OutRows), k)
        IN /\ \A k \in 1..Len(OutRows) :
                 OutRows[k].actual_payment =
                     IF att(k) # {} THEN SumAmounts(pays, att(k)) ELSE OutRows[k].payment
           /\ ScheduledFieldsUnchanged

(* x is amount rounded to a whole cent. *)
IsNearestCent(x, amount) == x % MoneyScale = 0 /\ 2 * Abs(amount - x) <= MoneyScale

(* C9 amended: actual_payment is the ledger amount of the period rounded to  *)
(* two decimals when a nonzero payment was attributed to it (also when they  *)
(* sum to zero), else the scheduled payment; recorded payments change no     *)
(* scheduled payment, interest, principal component or balance.              *)
C9_ActualPayment ==
    Returned =>
        LET pays == Val(in_loan).payments
            start == _schedule_start_date(Val(in_loan))
            att(k) == Attributed(pays, start, Len(OutRows), k)
        IN /\ \A k \in 1..Len(OutRows) :
                 IF att(k) # {}
                 THEN IsNearestCent(OutRows[k].actual_payment, SumAmounts(pays, att(k)))
                 ELSE OutRows[k].actual_payment = OutRows[k].payment
           /\ ScheduledFieldsUnchanged

(* Two payments of 20.00 and -20.00 attributed to the last of three periods: *)
(* its actual payment is 0 while its scheduled payment is not.               *)
C9_Witness ==
    /\ Returned /\ Len(OutRows) = 3
    /\ Len(Val(in_loan).payments) = 2
    /\ Cardinality(Attributed(Val(in_loan).payments, _schedule_start_date(Val(in_loan)), 3, 3)) = 2
    /\ OutRows[3].actual_payment = 0
    /\ OutRows[3].payment > 0
    /\ OutRows[1].actual_payment = OutRows[1].payment

(***************************************************************************)
(* Properties of the request handlers (Spec)                               *)
(***************************************************************************)
Finished(s) == req[s].pc = "done"
Absent(o) == IsNone(o) \/ Val(o) <= 0

(* A request whose form asks for a fixed payment that cannot cover the *)
(* interest of the first month, and no term.                           *)
AsksUnpayable(s) ==
    /\ Finished(s)
    /\ req[s].kind \in {"add_loan", "edit_loan"}
    /\ req[s].outcome # "FileNotFoundError"
    /\ LET form == req[s].form
           rate == IF req[s].kind = "add_loan" THEN form.rate
                   ELSE IF IsNone(form.rate) THEN 0 ELSE Val(form.rate)
       IN /\ form.principal > 0 /\ rate > 0
          /\ Absent(form.months)
          /\ ~Absent(form.payment)
          /\ Val(form.payment) * RateDen <= form.principal * rate

(* C4: resolving the terms of a loan whose fixed payment is at most          *)
(* principal * monthlyRate, with no term, reports an outcome of its own, the *)
(* unpayable loan.                                                           *)
C4_UnpayableReported ==
    \A s \in Slots : AsksUnpayable(s) => req[s].outcome = "UnpayableLoan"

AsksDefaults(s) ==
    /\ Finished(s)
    /\ req[s].kind \in {"add_loan", "edit_loan"}
    /\ req[s].outcome = "redirect"
    /\ req[s].form.principal > 0
    /\ Absent(req[s].form.months)
    /\ Absent(req[s].form.payment)

(* C5: when term and fixed payment are both absent (or <= 0) and principal > 0, *)
(* the resolver yields a term of 12 months and the loan gets a 12-row schedule, *)
(* on add_loan and on edit_loan alike.                                          *)
C5_DefaultTermEverywhere ==
    \A s \in Slots :
        AsksDefaults(s) =>
            /\ req[s].loan.months = Some(WholeMonths(12))
            /\ Len(generate_amortization_schedule(req[s].loan).rows) = 12

LoanFields ==
    {"child", "principal", "interest_rate", "months", "payment_per_month",
     "start_date", "payments"}

(* C6: the stored record of a loan holds Loan fields only, never a derived one. *)
C6_NoDerivedFieldStored ==
    \A id \in LoanIds :
        ~IsNone(store[id]) => DOMAIN Val(store[id]) \subseteq LoanFields

Mutating == {"add_payment", "edit_payment", "edit_loan"}

(* s and t both read the record before either wrote it, and t wrote last. *)
LostUpdate(s, t) ==
    /\ s # t /\ Finished(s) /\ Finished(t)
    /\ req[s].kind \in Mutating /\ req[t].kind \in Mutating
    /\ req[s].outcome = "redirect" /\ req[t].outcome = "redirect"
    /\ req[s].loan_id = req[t].loan_id
    /\ req[s].read_at < req[t].wrote_at /\ req[t].read_at < req[s].wrote_at
    /\ req[s].wrote_at < req[t].wrote_at
    /\ req[t].wrote_at = writes

(* C10: when two mutating requests on one loan both read before either writes, *)
(* the stored record after both finish is exactly what the last writer wrote,  *)
(* and the payment the first writer appended is not in it.                     *)
C10_LastWriteWins ==
    \A s, t \in Slots :
        LostUpdate(s, t) =>
            LET stored == Val(store[req[t].loan_id])
                written == req[t].loan
            IN /\ DOMAIN stored = (DOMAIN written) \ {"id"}
               /\ \A k \in DOMAIN stored : stored[k] = written[k]
               /\ (req[s].kind = "add_payment" /\ req[t].kind = "add_payment"
                     /\ req[s].read_at = req[t].read_at) =>
                     /\ Len(stored.payments) = Len(req[s].loan.payments)
                     /\ Len(stored.payments) = Len(req[t].loan.payments)

(* Two add_payment requests with different amounts that both read the loan *)
(* without payments: one payment is stored, the last writer's.             *)
C10_Witness ==
    \E s, t \in Slots :
        /\ LostUpdate(s, t)
        /\ req[s].kind = "add_payment" /\ req[t].kind = "add_payment"
        /\ req[s].read_at = req[t].read_at
        /\ req[s].form.amount # req[t].form.amount
        /\ Len(Val(store[req[t].loan_id]).payments) = 1
        /\ Val(store[req[t].loan_id]).payments[1].amount = Some(req[t].form.amount)
====
